---- MODULE Spec2Model ----
(***************************************************************************)
(* Model of tpprl/exp_sampler.py: the CDFSampler state machine and its two *)
(* intensity families (ExpCDFSampler, SigmoidCDFSampler).                  *)
(*                                                                         *)
(* Floating point numbers are modelled as fixed-point numbers: the integer *)
(* n stands for n / Scale.  Like binary64 the representation has a finite  *)
(* resolution (results are rounded to the nearest representable value, so  *)
(* a small positive value can be absorbed or flushed to zero) and a finite *)
(* range (results beyond MaxFloat become +inf / -inf); NaN is a value.     *)
(***************************************************************************)
EXTENDS Integers, Sequences, FiniteSets, TLC

\* ------------------------------------------------------------------------
\* Floating point arithmetic (numpy float64)
\* ------------------------------------------------------------------------
Scale == 1000
MaxFloat == 1000000

PInf == MaxFloat + 1
NInf == 0 - PInf
NaN == MaxFloat + 2

One == Scale

IsNaN(x) == x = NaN
IsInf(x) == x = PInf \/ x = NInf
IsFin(x) == ~IsNaN(x) /\ ~IsInf(x)

Abs(x) == IF x < 0 THEN 0 - x ELSE x
Sgn(x) == IF x < 0 THEN 0 - 1 ELSE IF x = 0 THEN 0 ELSE 1

\* n / d rounded to the nearest integer (d > 0), symmetric in the sign of n
RDiv(n, d) == IF n >= 0 THEN (2 * n + d) \div (2 * d)
                        ELSE 0 - ((2 * (0 - n) + d) \div (2 * d))

\* a finite result, brought into the representable range
Clamp(r) == IF r > MaxFloat THEN PInf ELSE IF r < 0 - MaxFloat THEN NInf ELSE r

SignedInf(s) == IF s < 0 THEN NInf ELSE PInf

FNeg(a) == IF IsNaN(a) THEN NaN ELSE 0 - a

FAdd(a, b) ==
    IF IsNaN(a) \/ IsNaN(b) THEN NaN
    ELSE IF IsInf(a) /\ IsInf(b) THEN (IF a = b THEN a ELSE NaN)
    ELSE IF IsInf(a) THEN a
    ELSE IF IsInf(b) THEN b
    ELSE Clamp(a + b)

FSub(a, b) == FAdd(a, FNeg(b))

FMul(a, b) ==
    IF IsNaN(a) \/ IsNaN(b) THEN NaN
    ELSE IF IsInf(a) \/ IsInf(b)
         THEN (IF a = 0 \/ b = 0 THEN NaN ELSE SignedInf(Sgn(a) * Sgn(b)))
    ELSE IF a = 0 \/ b = 0 THEN 0
    ELSE IF Abs(a) > (MaxFloat * Scale) \div Abs(b) THEN SignedInf(Sgn(a) * Sgn(b))
    ELSE Clamp(RDiv(a * b, Scale))

FDiv(a, b) ==
    IF IsNaN(a) \/ IsNaN(b) THEN NaN
    ELSE IF IsInf(a) THEN (IF IsInf(b) THEN NaN
                           ELSE SignedInf(Sgn(a) * (IF b < 0 THEN 0 - 1 ELSE 1)))
    ELSE IF IsInf(b) THEN 0
    ELSE IF b = 0 THEN (IF a = 0 THEN NaN ELSE SignedInf(Sgn(a)))
    ELSE Clamp(RDiv(Sgn(b) * a * Scale, Abs(b)))

\* comparisons: any comparison with NaN is false
FLe(a, b) == ~IsNaN(a) /\ ~IsNaN(b) /\ a <= b
FLt(a, b) == ~IsNaN(a) /\ ~IsNaN(b) /\ a < b

\* e and ln 2 at the model's resolution
EConst == 2718
Ln2 == 693

\* Taylor series of exp(r / Scale) for 0 <= r < Scale: the terms from the
\* k-th on, the (k-1)-th being prev
RECURSIVE ExpTerms(_, _, _)
ExpTerms(r, k, prev) ==
    LET t == RDiv(prev * r, k * Scale)
    IN IF t = 0 THEN 0 ELSE t + ExpTerms(r, k + 1, t)

ExpFrac(r) == One + ExpTerms(r, 1, One)

RECURSIVE EPow(_)
EPow(n) == IF n = 0 THEN One ELSE FMul(EConst, EPow(n - 1))

\* exp(x) for finite x >= 0; always >= 1
ExpPos(x) ==
    IF x > 7 * Scale THEN PInf
    ELSE FMul(EPow(x \div Scale), ExpFrac(x % Scale))

\* np.exp
FExp(x) ==
    IF IsNaN(x) THEN NaN
    ELSE IF x = PInf THEN PInf
    ELSE IF x = NInf THEN 0
    ELSE IF x >= 0 THEN ExpPos(x)
    ELSE FDiv(One, ExpPos(0 - x))

\* series of 2 * atanh(z), z = (m - 1) / (m + 1): the terms from the n-th
\* power on (n odd), p being z^n
RECURSIVE LogTerms(_, _, _)
LogTerms(z, n, p) ==
    IF p = 0 THEN 0
    ELSE RDiv(2 * p, n) + LogTerms(z, n + 2, RDiv(p * z * z, Scale * Scale))

\* log(x) for finite x >= 1; always >= 0
RECURSIVE LogGE1(_)
LogGE1(x) ==
    IF x >= 2 * Scale THEN Ln2 + LogGE1(RDiv(x, 2))
    ELSE LET z == RDiv((x - One) * Scale, x + One)
         IN LogTerms(z, 1, z)

\* np.log
FLog(x) ==
    IF IsNaN(x) THEN NaN
    ELSE IF x = PInf THEN PInf
    ELSE IF x < 0 THEN NaN
    ELSE IF x = 0 THEN NInf
    ELSE IF x >= One THEN LogGE1(x)
    ELSE 0 - LogGE1(FDiv(One, x))

\* x ** y for x >= 0
FPow(x, y) ==
    IF IsNaN(x) \/ IsNaN(y) THEN NaN
    ELSE IF y = 0 THEN One
    ELSE FExp(FMul(y, FLog(x)))


\* ------------------------------------------------------------------------
\* Bounds and inputs
\* ------------------------------------------------------------------------
\* times offered to the sampler: 0, 1, .., MaxTime
MaxTime == 2
\* calls made on a sampler after its construction
MaxCalls == 2

Times == {i * Scale : i \in 0..MaxTime}

\* seed=42 is the constructor's default; the broadcasters pass seed + 1
DefaultSeed == 42
Seeds == {DefaultSeed}

\* hidden states handed to the sampler, and the constructor's parameters
HVals == {<<0, 0>>, <<2 * One, 0>>}
VtParam == <<One, 0 - One>>
BtParam == 0
WtVals == {One, 0 - One}
Families == {"ExpCDFSampler", "SigmoidCDFSampler"}

\* ------------------------------------------------------------------------
\* np.random.RandomState: a linear congruential generator of full period
\* ------------------------------------------------------------------------
RngMod == 4

RandomState(seed) == seed % RngMod

\* random_state.rand(): the generator's next state and the variate in [0, 1)
rand(rs) ==
    LET nxt == (5 * rs + 3) % RngMod
    IN [state |-> nxt, value |-> RDiv(nxt * Scale, RngMod)]

\* ------------------------------------------------------------------------
\* CDFSampler and its sub-classes; self is the sampler object
\* ------------------------------------------------------------------------
\* self: the sampler object; last: the most recent call; calls: the number
\* of calls made; monotone: no call so far passed a time before the anchor
\* inp: the trajectory the driver holds for the aggregate computations
VARIABLES self, last, calls, monotone, inp

vars == <<self, last, calls, monotone, inp>>

RECURSIVE Dot(_, _)
Dot(a, b) ==
    IF a = <<>> \/ b = <<>> THEN 0
    ELSE FAdd(FMul(Head(a), Head(b)), Dot(Tail(a), Tail(b)))

\* ExpCDFSampler.cdf
ExpCdf(s, t) ==
    FSub(One, FExp(FMul(FDiv(FExp(s.c), s.w),
                        FSub(One, FExp(FMul(s.w, FSub(t, s.t0)))))))

\* SigmoidCDFSampler.cdf
SigmoidCdf(s, t) ==
    LET C == FDiv(FAdd(One, FExp(s.c)),
                  FAdd(One, FExp(FAdd(s.c, FMul(s.wt, FSub(t, s.t0))))))
    IN FSub(One, FPow(C, FDiv(s.k, s.wt)))

cdf(s, t) == IF s.family = "ExpCDFSampler" THEN ExpCdf(s, t) ELSE SigmoidCdf(s, t)

\* the inverse-sampling variable D of ExpCDFSampler.generate_sample
ExpD(s) ==
    FSub(One, FMul(FDiv(s.w, FExp(s.c)),
                   FLog(FDiv(FSub(One, s.u_unif), s.Q))))

\* ExpCDFSampler.generate_sample
ExpGenerateSample(s) ==
    LET D == ExpD(s)
    IN IF FLe(D, 0) THEN PInf
       ELSE FAdd(s.t0, FMul(FDiv(One, s.w), FLog(D)))

\* the inverse-sampling variable D of SigmoidCDFSampler.generate_sample
SigmoidD(s) ==
    FSub(FMul(FAdd(One, FExp(s.c)),
              FPow(FDiv(FSub(One, s.u_unif), s.Q), FDiv(FNeg(s.k), s.wt))),
         One)

\* SigmoidCDFSampler.generate_sample
SigmoidGenerateSample(s) ==
    LET D == SigmoidD(s)
    IN IF FLe(D, 0) THEN PInf
       ELSE FAdd(s.t0, FDiv(FSub(FLog(D), s.c), s.wt))

\* generate_sample without the test of D
generate_sample_Unguarded(s) ==
    IF s.family = "ExpCDFSampler"
    THEN FAdd(s.t0, FMul(FDiv(One, s.w), FLog(ExpD(s))))
    ELSE FAdd(s.t0, FDiv(FSub(FLog(SigmoidD(s)), s.c), s.wt))

generate_sample(s) ==
    IF s.family = "ExpCDFSampler" THEN ExpGenerateSample(s)
    ELSE SigmoidGenerateSample(s)

\* reset drawing a variate whatever reset_sample is
reset_AlwaysDraws(s, cur_time, init_h, reset_sample) ==
    LET r == rand(s.random_state)
        s0 == [s EXCEPT !.u_unif = r.value, !.random_state = r.state]
        s1 == IF reset_sample
              THEN [s0 EXCEPT !.Q = One]
              ELSE [s0 EXCEPT !.Q = FMul(s.Q, FSub(One, cdf(s, cur_time)))]
        s2 == [s1 EXCEPT !.h = init_h,
                         !.c = FAdd(Dot(s.vt, init_h), s.bt),
                         !.t0 = cur_time]
    IN [self |-> s2, ret |-> generate_sample(s2)]

\* reset conditioning Q after the bias and the anchor have been replaced
reset_LateQ(s, cur_time, init_h, reset_sample) ==
    LET r == rand(s.random_state)
        s1 == [s EXCEPT !.h = init_h,
                        !.c = FAdd(Dot(s.vt, init_h), s.bt),
                        !.t0 = cur_time]
        s2 == IF reset_sample
              THEN [s1 EXCEPT !.u_unif = r.value, !.random_state = r.state,
                              !.Q = One]
              ELSE [s1 EXCEPT !.Q = FMul(s.Q, FSub(One, cdf(s1, cur_time)))]
    IN [self |-> s2, ret |-> generate_sample(s2)]

\* reset drawing a variate whenever the time has moved on from the anchor
reset_DrawsOnAdvance(s, cur_time, init_h, reset_sample) ==
    LET r == rand(s.random_state)
        s1 == IF reset_sample
              THEN [s EXCEPT !.u_unif = r.value, !.random_state = r.state,
                             !.Q = One]
              ELSE IF cur_time > s.t0
              THEN [s EXCEPT !.random_state = r.state,
                             !.Q = FMul(s.Q, FSub(One, cdf(s, cur_time)))]
              ELSE [s EXCEPT !.Q = FMul(s.Q, FSub(One, cdf(s, cur_time)))]
        s2 == [s1 EXCEPT !.h = init_h,
                         !.c = FAdd(Dot(s.vt, init_h), s.bt),
                         !.t0 = cur_time]
    IN [self |-> s2, ret |-> generate_sample(s2)]

\* CDFSampler.reset: the sampler after the call and the value returned
reset(s, cur_time, init_h, reset_sample) ==
    LET r == rand(s.random_state)
        s1 == IF reset_sample
              THEN [s EXCEPT !.u_unif = r.value, !.random_state = r.state,
                             !.Q = One]
              ELSE [s EXCEPT !.Q = FMul(s.Q, FSub(One, cdf(s, cur_time)))]
        s2 == [s1 EXCEPT !.h = init_h,
                         !.c = FAdd(Dot(s.vt, init_h), s.bt),
                         !.t0 = cur_time]
    IN [self |-> s2, ret |-> generate_sample(s2)]

\* register_event treating every event as an own event
register_event_AlwaysOwn(s, time, new_h, own_event) == reset(s, time, new_h, TRUE)

\* CDFSampler.register_event
register_event(s, time, new_h, own_event) == reset(s, time, new_h, own_event)

\* reset_only_sample without the assignment Q = 1.0
reset_only_sample_KeepsQ(s, cur_time) ==
    LET r == rand(s.random_state)
        s1 == [s EXCEPT !.c = FAdd(s.c, FMul(s.w, FSub(cur_time, s.t0))),
                        !.t0 = cur_time,
                        !.u_unif = r.value, !.random_state = r.state]
    IN [self |-> s1, ret |-> generate_sample(s1)]

\* reset_only_sample clearing the hidden state
reset_only_sample_ClearsH(s, cur_time) ==
    LET r == rand(s.random_state)
        s1 == [s EXCEPT !.c = FAdd(s.c, FMul(s.w, FSub(cur_time, s.t0))),
                        !.t0 = cur_time,
                        !.u_unif = r.value, !.random_state = r.state,
                        !.Q = One,
                        !.h = [i \in 1..Len(s.h) |-> 0]]
    IN [self |-> s1, ret |-> generate_sample(s1)]

\* reset_only_sample moving the anchor before it advances the bias
reset_only_sample_AnchorFirst(s, cur_time) ==
    LET r == rand(s.random_state)
        s1 == [s EXCEPT !.c = FAdd(s.c, FMul(s.w, FSub(cur_time, cur_time))),
                        !.t0 = cur_time,
                        !.u_unif = r.value, !.random_state = r.state,
                        !.Q = One]
    IN [self |-> s1, ret |-> generate_sample(s1)]

\* CDFSampler.reset_only_sample
reset_only_sample(s, cur_time) ==
    LET r == rand(s.random_state)
        s1 == [s EXCEPT !.c = FAdd(s.c, FMul(s.w, FSub(cur_time, s.t0))),
                        !.t0 = cur_time,
                        !.u_unif = r.value, !.random_state = r.state,
                        !.Q = One]
    IN [self |-> s1, ret |-> generate_sample(s1)]

\* CDFSampler.get_last_hidden_state, CDFSampler.get_last_c
get_last_hidden_state(s) == s.h
get_last_c(s) == s.c

\* CDFSampler.__init__ (SigmoidCDFSampler.__init__ stores k first; k=1.0 is
\* its default).  The fields reset assigns do not exist before the call.
KDefault == One

Construct(family, vt, wt, bt, init_h, t_min, seed) ==
    LET s0 == [family |-> family, k |-> KDefault, seed |-> seed,
               vt |-> vt, wt |-> wt, bt |-> bt, w |-> wt, Q |-> One,
               random_state |-> RandomState(seed),
               u_unif |-> 0, h |-> <<>>, c |-> 0, t0 |-> 0]
    IN reset(s0, t_min, init_h, TRUE)

\* np.log1p
Log1p(x) == FLog(FAdd(One, x))

\* ExpCDFSampler.int_u, ExpCDFSampler.log_u
ExpIntU(s, dt, c) ==
    FMul(FDiv(One, s.wt), FSub(FExp(FAdd(c, FMul(s.wt, dt))), FExp(c)))
ExpLogU(s, dt, c) == FAdd(c, FMul(s.wt, dt))

\* SigmoidCDFSampler.log_u, SigmoidCDFSampler.int_u
SigmoidLogU(s, dt, c) ==
    FLog(FDiv(One, FAdd(One, FExp(FNeg(FAdd(c, FMul(s.wt, dt)))))))
SigmoidIntU(s, dt, c) ==
    FMul(FDiv(s.k, s.wt),
         FSub(Log1p(FExp(FAdd(c, FMul(s.wt, dt)))), Log1p(FExp(c))))

int_u(s, dt, c) ==
    IF s.family = "ExpCDFSampler" THEN ExpIntU(s, dt, c) ELSE SigmoidIntU(s, dt, c)
log_u(s, dt, c) ==
    IF s.family = "ExpCDFSampler" THEN ExpLogU(s, dt, c) ELSE SigmoidLogU(s, dt, c)

\* Python's zip of three sequences: as long as the shortest
RECURSIVE Zip3(_, _, _)
Zip3(a, b, c) ==
    IF a = <<>> \/ b = <<>> \/ c = <<>> THEN <<>>
    ELSE <<<<Head(a), Head(b), Head(c)>>>> \o Zip3(Tail(a), Tail(b), Tail(c))

\* the sum of log_u without the filter on the flags
RECURSIVE SumLog_Unfiltered(_, _, _)
SumLog_Unfiltered(s, zs, acc) ==
    IF zs = <<>> THEN acc
    ELSE SumLog_Unfiltered(s, Tail(zs),
                           FAdd(acc, log_u(s, Head(zs)[1], Head(zs)[2])))

\* sum(self.log_u(dt, c) for dt, c, o in zs if o), from the left
RECURSIVE SumLog(_, _, _)
SumLog(s, zs, acc) ==
    IF zs = <<>> THEN acc
    ELSE SumLog(s, Tail(zs),
                IF Head(zs)[3] THEN FAdd(acc, log_u(s, Head(zs)[1], Head(zs)[2]))
                ELSE acc)

\* sum(self.int_u(dt, c) for dt, c in zs), from the left
RECURSIVE SumInt(_, _, _)
SumInt(s, zs, acc) ==
    IF zs = <<>> THEN acc
    ELSE SumInt(s, Tail(zs), FAdd(acc, int_u(s, Head(zs)[1], Head(zs)[2])))

\* calc_LL without its assertion
calc_LL_NoAssert(s, event_time_deltas, c_is, is_own_event) ==
    LET LL_log == SumLog(s, Zip3(event_time_deltas, c_is, is_own_event), 0)
        LL_int == SumInt(s, Zip3(event_time_deltas, c_is, c_is), 0)
    IN [raised |-> "", ret |-> FSub(LL_log, LL_int)]

\* CDFSampler.calc_LL: what it raises ("" when it returns) and its value
calc_LL(s, event_time_deltas, c_is, is_own_event) ==
    IF is_own_event = <<>> THEN [raised |-> "IndexError", ret |-> 0]
    ELSE IF is_own_event[Len(is_own_event)]
    THEN [raised |-> "AssertionError", ret |-> 0]
    ELSE LET LL_log == SumLog(s, Zip3(event_time_deltas, c_is, is_own_event), 0)
             LL_int == SumInt(s, Zip3(event_time_deltas, c_is, c_is), 0)
         IN [raised |-> "", ret |-> FSub(LL_log, LL_int)]

\* ExpCDFSampler.int_u_2, SigmoidCDFSampler.int_u_2
ExpIntU2(s, dt, c) ==
    FMul(FDiv(One, FMul(2 * One, s.wt)),
         FSub(FExp(FAdd(FMul(2 * One, c), FMul(FMul(2 * One, s.wt), dt))),
              FExp(FMul(2 * One, c))))
SigmoidIntU2(s, dt, c) ==
    LET x == FAdd(c, FMul(s.wt, dt))
    IN FMul(FDiv(FMul(s.k, s.k), s.wt),
            FSub(FSub(FAdd(FDiv(One, FAdd(One, FExp(x))), Log1p(FExp(x))),
                      FDiv(One, FAdd(One, FExp(c)))),
                 Log1p(FExp(c))))

int_u_2(s, dt, c) ==
    IF s.family = "ExpCDFSampler" THEN ExpIntU2(s, dt, c) ELSE SigmoidIntU2(s, dt, c)

\* sum(self.int_u_2(dt, c) for dt, c in zs), from the left
RECURSIVE SumInt2(_, _, _)
SumInt2(s, zs, acc) ==
    IF zs = <<>> THEN acc
    ELSE SumInt2(s, Tail(zs), FAdd(acc, int_u_2(s, Head(zs)[1], Head(zs)[2])))

\* CDFSampler.calc_quad_loss
calc_quad_loss(s, event_time_deltas, c_is) ==
    SumInt2(s, Zip3(event_time_deltas, c_is, c_is), 0)

\* ------------------------------------------------------------------------
\* The calls a driver makes
\* ------------------------------------------------------------------------
\* longest trajectory handed to calc_LL
MaxLen == 2

RECURSIVE SeqsUpTo(_, _)
SeqsUpTo(S, n) ==
    IF n = 0 THEN {<<>>}
    ELSE LET shorter == SeqsUpTo(S, n - 1)
         IN shorter \cup {Append(q, x) : q \in {r \in shorter : Len(r) = n - 1}, x \in S}

\* trajectories: interval deltas, biases and own-event flags
LLInputs ==
    SeqsUpTo({One, 2 * One}, MaxLen) \X SeqsUpTo({0, One}, MaxLen)
        \X SeqsUpTo(BOOLEAN, MaxLen)

\* the record of the most recent call: what was called, with which
\* arguments, what it returned and what it raised ("" when it returned)
Call(op, cur_time, h, flag, ret, raised, args) ==
    [op |-> op, cur_time |-> cur_time, h |-> h, flag |-> flag, ret |-> ret,
     raised |-> raised, args |-> args]

\* samplers constructed with a hidden state of hs and a seed of seeds
InitFrom(hs, seeds, trajectories) ==
    \E family \in Families, wt \in WtVals, init_h \in hs, seed \in seeds :
        LET r == Construct(family, VtParam, wt, BtParam, init_h, 0, seed)
        IN /\ self = r.self
           /\ last = Call("__init__", 0, init_h, TRUE, r.ret, "", <<>>)
           /\ calls = 0
           /\ monotone = TRUE
           /\ inp \in trajectories

InitWith(trajectories) == InitFrom(HVals, Seeds, trajectories)

Init == InitWith({<<<<One, One>>, <<0, One>>, <<TRUE, FALSE>>>>})

\* one more call, made at cur_time
Count(cur_time) ==
    /\ calls < MaxCalls
    /\ calls' = calls + 1
    /\ monotone' = (monotone /\ cur_time >= self.t0)
    /\ UNCHANGED inp

Reset(cur_time, init_h, reset_sample) ==
    LET r == reset(self, cur_time, init_h, reset_sample)
    IN /\ Count(cur_time)
       /\ self' = r.self
       /\ last' = Call("reset", cur_time, init_h, reset_sample, r.ret, "", <<>>)

RegisterEvent(time, new_h, own_event) ==
    LET r == register_event(self, time, new_h, own_event)
    IN /\ Count(time)
       /\ self' = r.self
       /\ last' = Call("register_event", time, new_h, own_event, r.ret, "", <<>>)

ResetOnlySample(cur_time) ==
    LET r == reset_only_sample(self, cur_time)
    IN /\ Count(cur_time)
       /\ self' = r.self
       /\ last' = Call("reset_only_sample", cur_time, <<>>, TRUE, r.ret, "", <<>>)

\* generate_sample taking a new variate at every call
GenerateSample_Redraws ==
    LET r == rand(self.random_state)
        s1 == [self EXCEPT !.u_unif = r.value, !.random_state = r.state]
    IN /\ Count(self.t0)
       /\ last' = Call("generate_sample", self.t0, <<>>, FALSE,
                       generate_sample(s1), "", <<>>)
       /\ self' = s1

GenerateSample ==
    /\ Count(self.t0)
    /\ last' = Call("generate_sample", self.t0, <<>>, FALSE,
                    generate_sample(self), "", <<>>)
    /\ UNCHANGED self

Cdf(t) ==
    /\ Count(self.t0)
    /\ last' = Call("cdf", t, <<>>, FALSE, cdf(self, t), "", <<>>)
    /\ UNCHANGED self

CalcLL ==
    LET r == calc_LL(self, inp[1], inp[2], inp[3])
    IN /\ Count(self.t0)
       /\ last' = Call("calc_LL", self.t0, <<>>, FALSE, r.ret, r.raised, inp)
       /\ UNCHANGED self

Next ==
    \/ \E t \in Times, hv \in HVals, b \in BOOLEAN : Reset(t, hv, b)
    \/ \E t \in Times, hv \in HVals, b \in BOOLEAN : RegisterEvent(t, hv, b)
    \/ \E t \in Times : ResetOnlySample(t)
    \/ GenerateSample
    \/ CalcLL

Spec == Init /\ [][Next]_vars

\* the aggregate computations alone, over every trajectory
InitLL == InitWith(LLInputs)

NextLL == CalcLL

SpecLL == InitLL /\ [][NextLL]_vars

\* inverse sampling followed by the CDF at the candidate, over a range of
\* biases c = vt . h + bt and of first variates
BiasRange == 6
RoundTripH == {<<i * One, 0>> : i \in (0 - 2)..BiasRange}
RoundTripSeeds == DefaultSeed..(DefaultSeed + RngMod - 1)

InitRT == InitFrom(RoundTripH, RoundTripSeeds, {<<>>})

NextRT ==
    \/ GenerateSample
    \/ last.op = "generate_sample" /\ IsFin(last.ret) /\ Cdf(last.ret)

SpecRT == InitRT /\ [][NextRT]_vars

GetLastHiddenState ==
    /\ Count(self.t0)
    /\ last' = Call("get_last_hidden_state", self.t0, <<>>, FALSE,
                    get_last_hidden_state(self), "", <<>>)
    /\ UNCHANGED self

GetLastC ==
    /\ Count(self.t0)
    /\ last' = Call("get_last_c", self.t0, <<>>, FALSE, get_last_c(self), "", <<>>)
    /\ UNCHANGED self

CalcQuadLoss ==
    /\ Count(self.t0)
    /\ last' = Call("calc_quad_loss", self.t0, <<>>, FALSE,
                    calc_quad_loss(self, inp[1], inp[2]), "", inp)
    /\ UNCHANGED self

\* the sampler's reading operations between the calls that re-anchor it
NextFrame ==
    \/ Next
    \/ \E t \in Times : Cdf(t)
    \/ GetLastHiddenState
    \/ GetLastC
    \/ CalcQuadLoss

SpecFrame == Init /\ [][NextFrame]_vars

\* ------------------------------------------------------------------------
\* ExpRecurrentBroadcaster and ExpRecurrentBroadcasterMP
\* ------------------------------------------------------------------------
\* the broadcaster's own src_id and the src_ids of the events it is handed
SrcId == 1
SrcIds == {SrcId, SrcId + 1}

\* the seeds broadcasters are constructed with
BroadcasterSeeds == {DefaultSeed - 1, DefaultSeed}

\* event is None
None == [src_id |-> 0, cur_time |-> 0]

\* get_next_interval handing every event to the sampler as a foreign one
\* but its own
get_next_interval_Inverted(s, event, new_h, last_self_event_time) ==
    IF event = None THEN [self |-> s, ret |-> generate_sample(s), raised |-> ""]
    ELSE LET r == register_event(s, event.cur_time, new_h, event.src_id # SrcId)
             next_delta == FSub(r.ret, last_self_event_time)
         IN [self |-> r.self, ret |-> next_delta,
             raised |-> IF FLe(0, next_delta) THEN "" ELSE "AssertionError"]

\* get_next_interval: new_h is what update_hidden_state returned, and
\* last_self_event_time the attribute the base class OM.Broadcaster keeps
get_next_interval(s, event, new_h, last_self_event_time) ==
    IF event = None THEN [self |-> s, ret |-> generate_sample(s), raised |-> ""]
    ELSE LET r == register_event(s, event.cur_time, new_h, event.src_id = SrcId)
             next_delta == FSub(r.ret, last_self_event_time)
         IN [self |-> r.self, ret |-> next_delta,
             raised |-> IF FLe(0, next_delta) THEN "" ELSE "AssertionError"]

\* a broadcaster's sampler: ExpCDFSampler(_opts=self.params, t_min=t_min,
\* seed=seed + 1)
InitBroadcaster(hs) ==
    \E wt \in WtVals, init_h \in hs, seed \in BroadcasterSeeds :
        LET r == Construct("ExpCDFSampler", VtParam, wt, BtParam, init_h, 0, seed + 1)
        IN /\ self = r.self
           /\ last = Call("__init__", 0, init_h, TRUE, r.ret, "", <<>>)
           /\ calls = 0
           /\ monotone = TRUE
           /\ inp = <<>>

GetNextInterval(event, new_h, last_self_event_time) ==
    LET r == get_next_interval(self, event, new_h, last_self_event_time)
    IN /\ Count(IF event = None THEN self.t0 ELSE event.cur_time)
       /\ self' = r.self
       /\ last' = Call("get_next_interval",
                       IF event = None THEN self.t0 ELSE event.cur_time,
                       IF event = None THEN <<>> ELSE new_h,
                       event.src_id = SrcId, r.ret, r.raised,
                       <<event, last_self_event_time>>)

\* the events of a simulation: any source, any time
Events(times) == [src_id : SrcIds, cur_time : times]

InitB == InitBroadcaster(HVals)

NextB ==
    \/ GetNextInterval(None, <<>>, 0)
    \/ \E event \in Events(Times), new_h \in HVals :
           \E t \in {x \in Times : x <= event.cur_time} :
               GetNextInterval(event, new_h, t)

SpecB == InitB /\ [][NextB]_vars

\* the window of a foreign event: from the anchor to the candidate the sampler
\* returned last, which is generate_sample of the sampler as it stands
InWindow(s, t) == s.t0 <= t /\ FLe(t, generate_sample(s))

\* the times of the events of a simulation that keeps to the window: the
\* grid and the candidate itself
WindowTimes(s) ==
    Times \cup (IF IsFin(generate_sample(s)) THEN {generate_sample(s)} ELSE {})

InitBC == InitBroadcaster(RoundTripH)

\* foreign events inside the window only, and last_self_event_time never
\* after the event
NextBC ==
    \E event \in Events(WindowTimes(self)), new_h \in HVals, t \in WindowTimes(self) :
        /\ t <= event.cur_time
        /\ event.src_id # SrcId => InWindow(self, event.cur_time)
        /\ GetNextInterval(event, new_h, t)

SpecBC == InitBC /\ [][NextBC]_vars

\* SigmoidCDFSampler.__init__ with a scale of k
SigmoidConstruct(vt, wt, bt, init_h, t_min, seed, k) ==
    LET s0 == [family |-> "SigmoidCDFSampler", k |-> k, seed |-> seed,
               vt |-> vt, wt |-> wt, bt |-> bt, w |-> wt, Q |-> One,
               random_state |-> RandomState(seed),
               u_unif |-> 0, h |-> <<>>, c |-> 0, t0 |-> 0]
    IN reset(s0, t_min, init_h, TRUE)

\* the scales k, the interval lengths dt and the biases c of the intensity
KVals == {One \div 2, One, 2 * One}
Deltas == {0, One, 2 * One}
Biases == {0 - One, 0, One}

\* sigmoid samplers of every scale, asked for log_u
InitK ==
    \E wt \in WtVals, init_h \in HVals, seed \in Seeds, k \in KVals :
        LET r == SigmoidConstruct(VtParam, wt, BtParam, init_h, 0, seed, k)
        IN /\ self = r.self
           /\ last = Call("__init__", 0, init_h, TRUE, r.ret, "", <<>>)
           /\ calls = 0
           /\ monotone = TRUE
           /\ inp = <<>>

LogU(dt, c) ==
    /\ Count(self.t0)
    /\ last' = Call("log_u", dt, <<>>, FALSE, log_u(self, dt, c), "", <<c>>)
    /\ UNCHANGED self

NextK == \E dt \in Deltas, c \in Biases : LogU(dt, c)

SpecK == InitK /\ [][NextK]_vars

\* ------------------------------------------------------------------------
\* Properties
\* ------------------------------------------------------------------------
\* a step that is a call of op
Called(op) == calls' # calls /\ last'.op = op

\* the step draws a variate from the generator
Draws == self'.random_state # self.random_state

\* C1: after construction and after any sequence of calls whose times never
\* went below the anchor, 0 < Q <= 1.
C1_QInUnitInterval == monotone => (0 < self.Q /\ self.Q <= One)

\* C2: Q is assigned 1.0 in exactly the steps that draw a new variate:
\* construction and every drawing step leave Q = 1.0 with the new variate,
\* and a step that keeps the variate never assigns Q: it leaves Q as it was
\* or, in reset and register_event, multiplies it by the survival factor.
C2_QOneIffDraw ==
    /\ (last.op = "__init__" =>
            /\ self.Q = One
            /\ self.random_state = rand(RandomState(self.seed)).state
            /\ self.u_unif = rand(RandomState(self.seed)).value)
    /\ [][/\ Draws =>
                /\ self'.Q = One
                /\ self'.u_unif = rand(self.random_state).value
                /\ \/ Called("reset_only_sample")
                   \/ (Called("reset") \/ Called("register_event")) /\ last'.flag
          /\ ~Draws =>
                /\ self'.u_unif = self.u_unif
                /\ self'.Q = IF Called("reset") \/ Called("register_event")
                             THEN FMul(self.Q, FSub(One, cdf(self, last'.cur_time)))
                             ELSE self.Q]_vars

C2_Witness ==
    /\ last.op = "reset_only_sample"
    /\ calls = 2
    /\ self.Q = One
    /\ self.u_unif # rand(RandomState(self.seed)).value

\* C3: every reset is either a fresh draw (one variate taken, u_unif
\* replaced, Q = 1.0) or a conditioned continuation (variate and generator
\* kept, Q multiplied by the survival factor over the elapsed interval),
\* according to reset_sample.
C3_ResetOneOfTwo ==
    [][Called("reset") =>
        LET r == rand(self.random_state)
        IN \/ /\ last'.flag
              /\ self'.random_state = r.state
              /\ self'.u_unif = r.value
              /\ self'.Q = One
           \/ /\ ~last'.flag
              /\ self'.random_state = self.random_state
              /\ self'.u_unif = self.u_unif
              /\ self'.Q = FMul(self.Q, FSub(One, cdf(self, last'.cur_time)))]_vars

C3_Witness ==
    /\ last.op = "reset"
    /\ ~last.flag
    /\ 0 < self.Q /\ self.Q < One

\* C4: register_event(time, new_h, own_event) leaves the sampler in the
\* state, and returns the value, of reset(time, new_h, reset_sample=own_event).
C4_RegisterEventIsReset ==
    [][Called("register_event") =>
        LET r == reset(self, last'.cur_time, last'.h, last'.flag)
        IN self' = r.self /\ last'.ret = r.ret /\ last'.raised = ""]_vars

C4_Witness ==
    /\ last.op = "register_event"
    /\ ~last.flag
    /\ 0 < self.Q /\ self.Q < One

\* C5: reset or register_event with a time before the anchor t0 raises and
\* leaves the sampler unchanged.
C5_EarlierTimeRaises ==
    [][((Called("reset") \/ Called("register_event")) /\ last'.cur_time < self.t0)
        => (last'.raised # "" /\ self' = self)]_vars

\* C6: the anchor t0 never decreases.
C6_AnchorMonotone == [][self'.t0 >= self.t0]_vars

\* C7: reset_only_sample leaves h and the parameters as they were: it
\* changes c, t0, u_unif, Q and the generator state only.
C7_ResetOnlySampleFrame ==
    [][Called("reset_only_sample") =>
        /\ get_last_hidden_state(self') = get_last_hidden_state(self)
        /\ [self' EXCEPT !.c = self.c, !.t0 = self.t0, !.u_unif = self.u_unif,
                         !.Q = self.Q, !.random_state = self.random_state] = self]_vars

C7_Witness ==
    /\ last.op = "reset_only_sample"
    /\ self.h # <<0, 0>>
    /\ self.c # FAdd(Dot(self.vt, self.h), self.bt)

LastFlag(flags) == flags # <<>> /\ flags[Len(flags)]

\* C8: calc_LL with a flag sequence whose last entry is true raises an
\* assertion error, computes nothing and leaves the sampler unchanged.
C8_LastFlagTrueRaises ==
    [][(Called("calc_LL") /\ LastFlag(last'.args[3]))
        => (last'.raised = "AssertionError" /\ last'.ret = 0 /\ self' = self)]_vars

C8_Witness ==
    /\ last.op = "calc_LL"
    /\ Len(last.args[3]) = 2
    /\ LastFlag(last.args[3])
    /\ last.raised = "AssertionError"

\* the sum of f(i) over the indices i in I
RECURSIVE SumOver(_, _)
SumOver(I, f) ==
    IF I = {} THEN 0
    ELSE LET i == CHOOSE j \in I : \A l \in I : j <= l
         IN FAdd(f[i], SumOver(I \ {i}, f))

\* C9: on equally long sequences with the last flag false, calc_LL returns
\* the sum of log_u(dt_i, c_i) over the indices whose flag is true minus the
\* sum of int_u(dt_i, c_i) over all indices.
C9_LogLikelihoodValue ==
    (/\ last.op = "calc_LL"
     /\ Len(last.args[1]) = Len(last.args[3])
     /\ Len(last.args[2]) = Len(last.args[3])
     /\ last.args[3] # <<>>
     /\ ~LastFlag(last.args[3]))
    => LET dts == last.args[1]
           cs == last.args[2]
           own == last.args[3]
           n == Len(own)
           logs == [i \in 1..n |-> log_u(self, dts[i], cs[i])]
           ints == [i \in 1..n |-> int_u(self, dts[i], cs[i])]
       IN /\ last.raised = ""
          /\ last.ret = FSub(SumOver({i \in 1..n : own[i]}, logs), SumOver(1..n, ints))

C9_Witness ==
    /\ last.op = "calc_LL"
    /\ last.args[3] = <<TRUE, FALSE>>
    /\ Len(last.args[1]) = 2 /\ Len(last.args[2]) = 2
    /\ last.args[2][1] # last.args[2][2]
    /\ last.raised = ""

\* the inverse-sampling variable of the sampler's family
DOf(s) == IF s.family = "ExpCDFSampler" THEN ExpD(s) ELSE SigmoidD(s)

\* C10: when D <= 0 the candidate is +infinity, returned as a normal result
\* by reset, register_event and reset_only_sample, with the sampler updated
\* as for a finite candidate.
C10_DegenerateSample ==
    (/\ last.op \in {"__init__", "reset", "register_event", "reset_only_sample",
                     "generate_sample"}
     /\ FLe(DOf(self), 0))
    => /\ last.ret = PInf
       /\ last.raised = ""
       /\ self.t0 = last.cur_time
       /\ last.op \in {"__init__", "reset", "register_event"} =>
              /\ self.h = last.h
              /\ self.c = FAdd(Dot(self.vt, last.h), self.bt)
       /\ (last.flag /\ last.op # "generate_sample") => self.Q = One

C10_Witness ==
    /\ last.op = "register_event"
    /\ ~last.flag
    /\ FLe(DOf(self), 0)
    /\ last.ret = PInf
    /\ self.h = last.h /\ self.t0 = last.cur_time

\* the tolerance of a comparison of probabilities
Tol == Scale \div 10

\* C11: with Q = 1 and u in (0, 1), the CDF at a finite candidate returned
\* by generate_sample equals u up to the tolerance, in both families.
C11_RoundTrip ==
    (/\ last.op = "cdf"
     /\ self.Q = One
     /\ 0 < self.u_unif /\ self.u_unif < One
     /\ IsFin(generate_sample(self))
     /\ last.cur_time = generate_sample(self))
    => Abs(last.ret - self.u_unif) <= Tol

\* the sampler and the value that the call recorded in call gives from s
Apply(s, call) ==
    IF call.op = "reset" THEN reset(s, call.cur_time, call.h, call.flag)
    ELSE IF call.op = "register_event"
    THEN register_event(s, call.cur_time, call.h, call.flag)
    ELSE IF call.op = "reset_only_sample" THEN reset_only_sample(s, call.cur_time)
    ELSE [self |-> s, ret |-> call.ret]

\* the call takes a variate: decided by the operation and its flag alone
TakesVariate(call) ==
    \/ call.op = "reset_only_sample"
    \/ call.op \in {"reset", "register_event"} /\ call.flag

C13_FactorUsesOldBias ==
    [][(Called("reset") /\ ~last'.flag) =>
        LET before == [self' EXCEPT !.c = self.c, !.t0 = self.t0]
        IN /\ self'.Q = FMul(self.Q, FSub(One, cdf(before, last'.cur_time)))
           /\ self'.c = FAdd(Dot(self.vt, last'.h), self.bt)
           /\ self'.t0 = last'.cur_time]_vars

C13_Witness ==
    /\ last.op = "reset"
    /\ ~last.flag
    /\ last.cur_time > 0
    /\ 0 < self.Q /\ self.Q < One
    /\ cdf(self, last.cur_time) = 0
    /\ self.c # 0

\* C14: a second reset with reset_sample false, at a time after that of a
\* first one and with a CDF over the elapsed interval above zero, leaves Q
\* strictly smaller and u_unif as it was.
C14_ConditioningDecreasesQ ==
    [][(/\ last.op = "reset" /\ ~last.flag
        /\ Called("reset") /\ ~last'.flag
        /\ last'.cur_time > last.cur_time
        /\ FLt(0, cdf(self, last'.cur_time)))
       => (FLt(self'.Q, self.Q) /\ self'.u_unif = self.u_unif)]_vars

\* C15: reset_only_sample(cur_time) advances c by w * (cur_time - t0) with
\* the anchor of before the call, sets t0 to cur_time, takes exactly one
\* variate, sets Q to 1.0 and returns generate_sample of the new sampler.
C15_ResetOnlySample ==
    [][Called("reset_only_sample") =>
        /\ self'.c = FAdd(self.c, FMul(self.w, FSub(last'.cur_time, self.t0)))
        /\ self'.t0 = last'.cur_time
        /\ self'.random_state = rand(self.random_state).state
        /\ self'.u_unif = rand(self.random_state).value
        /\ self'.Q = One
        /\ last'.ret = generate_sample(self')
        /\ last'.raised = ""]_vars

C15_Witness ==
    /\ last.op = "reset_only_sample"
    /\ last.cur_time = 2 * Scale
    /\ self.c = FAdd(FAdd(Dot(self.vt, self.h), self.bt), FMul(self.w, 2 * Scale))
    /\ self.Q = One
    /\ IsFin(last.ret)

\* the intensity k * sigmoid(x) of the sigmoid family
SigmoidIntensity(k, x) == FMul(k, FDiv(One, FAdd(One, FExp(FNeg(x)))))

\* C16: for the sigmoid family log_u(dt, c) is the logarithm of the
\* intensity k * sigmoid(c + w * dt), up to the tolerance, for every k > 0.
C16_LogOfScaledIntensity ==
    (last.op = "log_u" /\ self.family = "SigmoidCDFSampler")
    => LET x == FAdd(last.args[1], FMul(self.wt, last.cur_time))
       IN Abs(last.ret - FLog(SigmoidIntensity(self.k, x))) <= Tol

\* the operations that re-anchor the sampler
Mutators == {"reset", "register_event", "reset_only_sample"}

\* C17: a call of generate_sample, cdf, get_last_hidden_state, get_last_c,
\* calc_LL or calc_quad_loss leaves the whole sampler as it was; generate_sample
\* returns the candidate of the sampler as it stands, so a repeated call
\* returns the same candidate.
C17_ReadersLeaveSampler ==
    [][/\ (calls' # calls /\ last'.op \notin Mutators) => self' = self
       /\ Called("generate_sample") =>
              /\ last'.ret = generate_sample(self)
              /\ last.op = "generate_sample" => last'.ret = last.ret]_vars

C17_Witness ==
    /\ calls = 2
    /\ last.op = "generate_sample"
    /\ 0 < self.Q /\ self.Q < One
    /\ self.t0 > 0
    /\ IsFin(last.ret)

\* C18: for an event that is not None get_next_interval hands the sampler
\* register_event(event.cur_time, new_h, own_event) with the hidden state
\* just computed and own_event true exactly when the event's src_id is the
\* broadcaster's: u_unif is redrawn at the own events and Q conditioned at
\* the foreign ones.  For None it returns the candidate and leaves the
\* sampler as it was.
C18_BroadcasterRegisters ==
    [][Called("get_next_interval") =>
        LET event == last'.args[1]
            own == event.src_id = SrcId
        IN IF event = None
           THEN self' = self /\ last'.ret = generate_sample(self)
                /\ last'.raised = ""
           ELSE /\ self' = register_event(self, event.cur_time, last'.h, own).self
                /\ self'.h = last'.h
                /\ Draws <=> own
                /\ own => self'.Q = One /\ self'.u_unif = rand(self.random_state).value
                /\ ~own => /\ self'.u_unif = self.u_unif
                           /\ self'.Q = FMul(self.Q,
                                             FSub(One, cdf(self, event.cur_time)))]_vars

C18_Witness ==
    /\ calls = 2
    /\ last.op = "get_next_interval"
    /\ last.args[1] # None
    /\ last.args[1].src_id # SrcId
    /\ 0 < self.Q /\ self.Q < One
    /\ self.u_unif # rand(RandomState(self.seed)).value

\* C19: when every foreign event falls between the anchor and the candidate
\* returned last, Q >= 1 - u_unif in every state, every candidate is
\* +infinity or not before the time of the call that returned it, and the
\* broadcaster's assertion next_delta >= 0 holds.
C19_CandidateNotBeforeCall ==
    /\ FLe(FSub(One, self.u_unif), self.Q)
    /\ (last.op = "get_next_interval" /\ last.args[1] # None) =>
           /\ generate_sample(self) = PInf \/ FLe(last.cur_time, generate_sample(self))
           /\ last.raised = ""

====
